---------------------------- MODULE Spec2Model ----------------------------
(***************************************************************************)
(* Model of the HR retention dashboard script src/app.py.                  *)
(*                                                                         *)
(* Text.  A Python str is modelled as a sequence of characters.  An ASCII  *)
(* letter is the one-letter string ("n", "N"); a Hangul syllable is one    *)
(* character written "k." followed by its romanisation ("k.seong" "k.myeong"*)
(* is the two-syllable header of the source's first name candidate).       *)
(* str.lower() maps the ASCII capitals to their small letters and leaves   *)
(* every other character alone; `a in b` is substring containment.         *)
(*                                                                         *)
(* Numbers.  A float cell is an integer, or NaN (the marker pandas leaves  *)
(* where numeric coercion fails); None is Python's None.                   *)
(***************************************************************************)
EXTENDS Integers, Sequences, FiniteSets, TLC

VARIABLES
    \* ---- the session (one script rerun per user interaction)
    upl,              \* the file held by the uploader widget
    df_columns,       \* df.columns of the last run (after strip), or <<>>
    colmap,           \* st.session_state["colmap"], or NoColmap before the first run
    halted,           \* where the last run stopped: "no", "load" or "mapping"
    required_missing, \* the keys listed by the last run's mapping error
    stages,           \* the stages the last run executed, in order
    last_event,       \* the interaction that triggered the last run
    runs,             \* number of reruns so far
    local_file,       \* the local hr_analysis_results.csv: "L", or "missing"
    coerced,          \* the columns apply_numeric coerced in the last run
    \* ---- try_read_table_from_bytes
    parses,           \* the attempts that would decode the given bytes
    attempted,        \* the attempts made so far, in order
    last_err,         \* the local last_err
    ret,              \* the returned pair, or Running
    \* ---- find_column / auto_guess_map on a header list
    cols,             \* the header list given to auto_guess_map
    guess,            \* its result, or NoColmap before the call
    \* ---- passed(row): the filter predicate on one row of df
    row,              \* the row handed to passed by df.apply
    fcolmap,          \* the mapping in force
    crit,             \* the filter widgets' values
    kept,             \* whether the row is in fdf: "in" or "out" ("todo" before the filter ran)
    \* ---- gen_pkg / calc_roi for the selected employee
    sel_row,          \* the selected employee's risk cell and salary cell (Absent: no salary column)
    risk_val,         \* the local risk_val
    salary_val,       \* the local salary_val
    pkg,              \* what gen_pkg did, or NotRun
    roi,              \* what calc_roi returned, or NotRun
    \* ---- the risk histogram over fdf
    fdf_risk,         \* the risk column of fdf
    bc                \* the four bucket counts, or <<>> before the chart is built

vars == <<upl, df_columns, colmap, halted, required_missing, stages, last_event, runs,
          local_file, coerced, parses, attempted, last_err, ret, cols, guess,
          row, fcolmap, crit, kept, sel_row, risk_val, salary_val, pkg, roi, fdf_risk, bc>>

sessionVars == <<upl, df_columns, colmap, halted, required_missing, stages, last_event, runs,
                 local_file, coerced>>
loaderVars  == <<parses, attempted, last_err, ret>>
findVars    == <<cols, guess>>
filterVars  == <<row, fcolmap, crit, kept>>
pkgVars     == <<sel_row, risk_val, salary_val, pkg, roi>>
histVars    == <<fdf_risk, bc>>

-----------------------------------------------------------------------------
(* Python values *)

\* a cell or argument value: a number, NaN or None
Num(n) == [t |-> "num", n |-> n]
NaN    == [t |-> "nan", n |-> 0]
None   == [t |-> "none", n |-> 0]

IsNum(v) == v.t = "num"

\* pd.isna(v)
isna(v) == v.t = "nan" \/ v.t = "none"

\* Python truthiness of a value: None, 0 and 0.0 are falsy, NaN is truthy
Truthy(v) == ~(v.t = "none" \/ (v.t = "num" /\ v.n = 0))

\* Python `a or b`
Or(a, b) == IF Truthy(a) THEN a ELSE b

\* a <= b on floats: a comparison with NaN is False
Le(a, b) == IsNum(a) /\ IsNum(b) /\ a.n <= b.n
Ge(a, b) == IsNum(a) /\ IsNum(b) /\ a.n >= b.n

-----------------------------------------------------------------------------
(* str *)

LowerOf == [A |-> "a", B |-> "b", C |-> "c", D |-> "d", E |-> "e", F |-> "f",
            G |-> "g", H |-> "h", I |-> "i", J |-> "j", K |-> "k", L |-> "l",
            M |-> "m", N |-> "n", O |-> "o", P |-> "p", Q |-> "q", R |-> "r",
            S |-> "s", T |-> "t", U |-> "u", V |-> "v", W |-> "w", X |-> "x",
            Y |-> "y", Z |-> "z"]

\* str.lower()
lower(s) == [i \in 1..Len(s) |-> IF s[i] \in DOMAIN LowerOf THEN LowerOf[s[i]] ELSE s[i]]

\* `c in k` for two strings
contains(k, c) == \E i \in 0..(Len(k) - Len(c)) : SubSeq(k, i + 1, i + Len(c)) = c

\* the sentinel the mapping uses for "no column"
Unmapped == <<"k.eops", "k.eum">>

\* find_column's None (no string has this character)
NotFound == <<"<None>">>

\* the session before st.session_state["colmap"] exists
NoColmap == <<>>

-----------------------------------------------------------------------------
(* find_column, auto_guess_map *)

FieldKeys == {"name", "org", "team", "grade", "level", "age", "tenure", "salary",
              "talent", "risk", "riskProb", "riskReason", "phone", "email"}

\* the candidate lists of auto_guess_map, in priority order
cands(key) ==
    CASE key = "name"       -> << <<"k.seong","k.myeong">>, <<"k.i","k.reum">>, <<"n","a","m","e">> >>
      [] key = "org"        -> << <<"k.bon","k.bu">>, <<"k.jo","k.jik">>, <<"o","r","g">> >>
      [] key = "team"       -> << <<"k.tim">>, <<"k.bu","k.seo">>, <<"t","e","a","m">> >>
      [] key = "grade"      -> << <<"k.seong","k.gwa","k.deung","k.geup">> >>
      [] key = "level"      -> << <<"k.jik","k.geup","k.re","k.bel">>, <<"k.re","k.bel">>,
                                  <<"k.jik","k.geup">> >>
      [] key = "age"        -> << <<"k.na","k.i">> >>
      [] key = "tenure"     -> << <<"k.geun","k.sok","k.yeon","k.su","(","k.nyeon",")">>,
                                  <<"k.geun","k.sok","k.yeon","k.su">> >>
      [] key = "salary"     -> << <<"k.yeon","k.bong","(","k.won",")">>, <<"k.yeon","k.bong">>,
                                  <<"s","a","l","a","r","y">> >>
      [] key = "talent"     -> << <<"k.in","k.jae","k.deung","k.geup">> >>
      [] key = "risk"       -> << <<"k.toe","k.jik","k.wi","k.heom","k.do">>,
                                  <<"k.wi","k.heom","k.do">>, <<"r","i","s","k">> >>
      [] key = "riskProb"   -> << <<"k.toe","k.jik","k.wi","k.heom","k.ye","k.cheuk","k.hwak","k.ryul">>,
                                  <<"k.ye","k.cheuk","k.hwak","k.ryul">> >>
      [] key = "riskReason" -> << <<"k.wi","k.heom","k.yo","k.in">> >>
      [] key = "phone"      -> << <<"k.hyu","k.dae","k.pon">>, <<"k.jeon","k.hwa">>,
                                  <<"p","h","o","n","e">> >>
      [] key = "email"      -> << <<"k.i","k.me","k.il">>, <<"e","m","a","i","l">> >>

\* low = {c.lower(): c for c in cols}.  Its keys are the lowered headers, in the
\* order of their first occurrence: lowKeys is the set of those positions
lowKeys(cs) == {i \in 1..Len(cs) : \A j \in 1..(i - 1) : lower(cs[j]) # lower(cs[i])}

\* low[k]: a later header with the same lowered form overwrites an earlier one
lowGet(cs, k) ==
    LET last == CHOOSE i \in 1..Len(cs) :
                    /\ lower(cs[i]) = k
                    /\ \A j \in (i + 1)..Len(cs) : lower(cs[j]) # k
    IN  cs[last]

\* the exact pass: the first candidate, in priority order, that is a key of low
exactPass(cs, cd) ==
    LET hits == {i \in 1..Len(cd) : \E j \in 1..Len(cs) : lower(cs[j]) = lower(cd[i])}
    IN  IF hits = {} THEN NotFound
        ELSE LET i == CHOOSE h \in hits : \A g \in hits : h <= g
             IN  lowGet(cs, lower(cd[i]))

\* the includes pass: candidates outermost, the items of low innermost
includesPass(cs, cd) ==
    LET hits == {p \in (1..Len(cd)) \X lowKeys(cs) :
                    contains(lower(cs[p[2]]), lower(cd[p[1]]))}
    IN  IF hits = {} THEN NotFound
        ELSE LET p == CHOOSE h \in hits :
                          \A g \in hits : h[1] < g[1] \/ (h[1] = g[1] /\ h[2] <= g[2])
             IN  lowGet(cs, lower(cs[p[2]]))

\* a lookup that runs the includes pass before the exact pass
find_column_includes_first(cs, cd) ==
    LET e == includesPass(cs, cd)
    IN  IF e # NotFound THEN e ELSE exactPass(cs, cd)

find_column(cs, cd) ==
    LET e == exactPass(cs, cd)
    IN  IF e # NotFound THEN e ELSE includesPass(cs, cd)

\* find_column(...) or the sentinel: None and the empty string are falsy
guessKey(cs, key) ==
    LET f == find_column(cs, cands(key))
    IN  IF f = NotFound \/ f = <<>> THEN Unmapped ELSE f

auto_guess_map(columns) == [key \in FieldKeys |-> guessKey(columns, key)]

-----------------------------------------------------------------------------
(* try_read_table_from_bytes *)

encs == <<"utf-8", "utf-8-sig", "cp949", "euc-kr", "latin1">>
seps == <<"auto", ",", ";", "\\t", "|">>

\* the attempts in the order the two nested loops and the Excel block make them
Attempts ==
    [i \in 1..(Len(encs) * Len(seps) + 1) |->
        IF i <= Len(encs) * Len(seps)
        THEN [kind |-> "csv", enc |-> encs[((i - 1) \div Len(seps)) + 1],
              sep |-> seps[((i - 1) % Len(seps)) + 1]]
        ELSE [kind |-> "excel", enc |-> "-", sep |-> "-"]]

\* the message returned with the table of a successful attempt
okMsg(a) ==
    IF a.kind = "csv" THEN [text |-> "CSV loaded", enc |-> a.enc, sep |-> a.sep]
    ELSE [text |-> "Excel loaded (.xlsx/.xls)", enc |-> "-", sep |-> "-"]

\* last_err after a failed attempt
errMsg(a) ==
    IF a.kind = "csv" THEN [text |-> "[csv] error", enc |-> a.enc, sep |-> a.sep]
    ELSE [text |-> "[excel] error", enc |-> "-", sep |-> "-"]

NoErr == [text |-> "", enc |-> "-", sep |-> "-"]

\* the function's position: running, or returned (df, msg); df is None on failure
Running == [state |-> "running", df |-> 0, msg |-> NoErr]
Returned(d, m) == [state |-> "returned", df |-> d, msg |-> m]

\* a loader whose Excel block forgets to record its error
tryAttempt_stale_err(i, ok, err) ==
    IF i \in ok
    THEN [ret |-> Returned(i, okMsg(Attempts[i])), last_err |-> err]
    ELSE [ret |-> IF i = Len(Attempts) THEN Returned(0, err) ELSE Running,
          last_err |-> errMsg(Attempts[i])]

\* one pass through a try block: attempt number i on bytes that the attempts in
\* ok decode.  A success returns the table that attempt decoded (tables are
\* named by the attempt that produced them, 0 is None); a failure is caught and
\* only sets last_err.
tryAttempt(i, ok, err) ==
    IF i \in ok
    THEN [ret |-> Returned(i, okMsg(Attempts[i])), last_err |-> err]
    ELSE [ret |-> IF i = Len(Attempts) THEN Returned(0, errMsg(Attempts[i])) ELSE Running,
          last_err |-> errMsg(Attempts[i])]

\* the whole call
RECURSIVE tryFrom(_, _, _)
tryFrom(i, ok, err) ==
    LET r == tryAttempt(i, ok, err)
    IN  IF r.ret.state = "returned" THEN r.ret ELSE tryFrom(i + 1, ok, r.last_err)

try_read_table_from_bytes(ok) == tryFrom(1, ok, NoErr)

-----------------------------------------------------------------------------
(* The script: one rerun per user interaction *)

\* c.strip() on a header
RECURSIVE strip(_)
strip(h) ==
    IF h = <<>> THEN h
    ELSE IF Head(h) = " " THEN strip(Tail(h))
    ELSE IF h[Len(h)] = " " THEN strip(SubSeq(h, 1, Len(h) - 1))
    ELSE h

\* the files of the session: which attempts decode their bytes, and the header
\* row of the decoded table
FileNames == {"L", "B", "C", "bad"}

fileParses(f) ==
    CASE f = "L"   -> {1, 2, 5}      \* a UTF-8 CSV
      [] f = "B"   -> {13, 18}       \* a cp949 CSV with semicolons
      [] f = "C"   -> {26}           \* a workbook
      [] f = "bad" -> {}

fileHeaders(f) ==
    CASE f = "L"   -> << <<" ","k.seong","k.myeong">>, <<"k.bon","k.bu"," ">>,
                         <<"k.toe","k.jik","k.wi","k.heom","k.do">>,
                         <<"k.ye","k.cheuk","k.hwak","k.ryul">> >>
      [] f = "B"   -> << <<"n","a","m","e">>, <<"O","r","g">>, <<"r","i","s","k">> >>
      [] f = "C"   -> << <<"k.i","k.reum">>, <<"k.tim">> >>
      [] f = "bad" -> <<>>

Range(f) == {f[i] : i \in DOMAIN f}

\* load_data: the uploaded file, else the local hr_analysis_results.csv ("L" when
\* it exists); st.stop() when there is no file or no attempt decodes it
load_data(u, local) ==
    LET f == IF u # "none" THEN u ELSE local
    IN  IF f = "missing" THEN [ok |-> FALSE, columns |-> <<>>]
        ELSE IF try_read_table_from_bytes(fileParses(f)).df = 0
             THEN [ok |-> FALSE, columns |-> <<>>]
             ELSE [ok |-> TRUE, columns |-> fileHeaders(f)]

\* the keys that have a selectbox, in the order the script draws them
SelectKeys == <<"name", "org", "team", "talent", "grade", "level", "risk", "salary",
                "riskReason", "age", "tenure", "phone", "email">>

\* st.selectbox(label, columns, index = columns.index(cur) if cur in columns else 0):
\* the user's pick when this interaction edited the widget, else the option at index
selectbox(columns, cur, pick) ==
    IF pick # NotFound THEN pick
    ELSE IF cur \in Range(columns) THEN cur ELSE columns[1]

\* the mapping UI: the thirteen assignments colmap[k] = st.selectbox(...)
mappingUI(cm, dfcols, edit) ==
    LET columns == <<Unmapped>> \o dfcols
    IN  [k \in FieldKeys |->
            IF k \in Range(SelectKeys)
            THEN selectbox(columns, cm[k], IF edit.key = k THEN edit.value ELSE NotFound)
            ELSE cm[k]]

\* a validation that forgets the risk column
RequiredKeys_norisk == <<"name", "org">>

RequiredKeys == <<"name", "org", "risk">>

\* the loop building required_missing
validate(cm, dfcols) ==
    SelectSeq(RequiredKeys, LAMBDA k : cm[k] = Unmapped \/ cm[k] \notin Range(dfcols))

NumericKeys == {"level", "age", "tenure", "salary", "risk", "riskProb"}

\* apply_numeric: the columns it coerces
apply_numeric(cm, dfcols) ==
    {cm[k] : k \in {n \in NumericKeys :
                        cm[n] # <<>> /\ cm[n] # Unmapped /\ cm[n] \in Range(dfcols)}}

NoEdit == [key |-> "-", value |-> NotFound]

\* the stages of the script after validation
LaterStages == <<"numeric", "filter", "kpi", "charts", "priority", "package", "export">>

\* the script from the validation of the required keys on: st.stop() when a
\* key is missing, else apply_numeric and the rest of the page
fromValidation(dfcols, cm1, missing) ==
    IF missing # <<>>
    THEN [columns |-> dfcols, colmap |-> cm1, halted |-> "mapping",
          required_missing |-> missing,
          stages |-> <<"load", "mapping", "validate">>, coerced |-> {}]
    ELSE [columns |-> dfcols, colmap |-> cm1, halted |-> "no",
          required_missing |-> <<>>,
          stages |-> <<"load", "mapping", "validate">> \o LaterStages,
          coerced |-> apply_numeric(cm1, dfcols)]

\* the script from the mapping UI on: the first run of a session guesses the
\* mapping, every run draws the selectboxes
fromMapping(dfcols, cm, edit) ==
    fromValidation(dfcols,
                   mappingUI(IF cm = NoColmap THEN auto_guess_map(dfcols) ELSE cm, dfcols, edit),
                   validate(mappingUI(IF cm = NoColmap THEN auto_guess_map(dfcols) ELSE cm,
                                      dfcols, edit),
                            dfcols))

\* df.columns = [c.strip() for c in df.columns]
stripAll(columns) == [i \in 1..Len(columns) |-> strip(columns[i])]

\* the script after load_data
fromLoad(ld, cm, edit) ==
    IF ~ld.ok
    THEN [columns |-> <<>>, colmap |-> cm, halted |-> "load",
          required_missing |-> <<>>, stages |-> <<"load">>, coerced |-> {}]
    ELSE fromMapping(stripAll(ld.columns), cm, edit)

\* the whole script on the current widget state
rerun(u, local, cm, edit) == fromLoad(load_data(u, local), cm, edit)

-----------------------------------------------------------------------------
(* The filter: passed(row) *)

\* row.get(c): None when the row has no such column
get(r, c) == IF c \in DOMAIN r THEN r[c] ELSE None

\* `c in df.columns`
inColumns(r, c) == c \in DOMAIN r

\* the mapped optional columns the search also looks at (lines 229-232)
searchFields(r, cm) ==
    {cm["name"], cm["org"]} \cup
    {cm[k] : k \in {x \in {"team", "talent", "riskReason"} :
                        cm[x] # Unmapped /\ inColumns(r, cm[x])}}

\* the search clause: some field contains the lowered search string
searchClause(r, cm, c) ==
    c.search # <<>> =>
        \E f \in searchFields(r, cm) :
            f \in DOMAIN r /\ contains(lower(r[f]), lower(c.search))

\* the categorical clauses: a non-empty selection on a mapped column must hold
\* the row's value (org is required, so its clause has no column test)
categoricalClause(r, cm, c) ==
    /\ c.sel["org"] # {} => (inColumns(r, cm["org"]) /\ r[cm["org"]] \in c.sel["org"])
    /\ \A k \in {"team", "grade", "level", "talent", "riskReason"} :
          (c.sel[k] # {} /\ inColumns(r, cm[k])) => r[cm[k]] \in c.sel[k]

\* a risk clause that lets a missing risk through
riskClause_missing_passes(r, cm, c) ==
    ~ (IsNum(get(r, cm["risk"])) /\ get(r, cm["risk"]).n < c.risk_threshold)

\* the risk clause: pd.isna(rv) or float(rv) < risk_threshold rejects the row
riskClause(r, cm, c) ==
    ~ (isna(get(r, cm["risk"])) \/ get(r, cm["risk"]).n < c.risk_threshold)

KeyTalent == { <<"C","r","i","t","i","c","a","l">>, <<"H","i","g","h">> }

\* the key-talent toggle
talentClause(r, cm, c) ==
    ~ (c.only_key /\ inColumns(r, cm["talent"]) /\ r[cm["talent"]] \notin KeyTalent)

\* no range: the slider of an unmapped column is not drawn, (None, None)
NoRange == <<>>

\* a range clause, for key "age" or "tenure" and its slider's (min, max):
\* not (min <= (v or -1) <= max) rejects the row
rangeClause(r, cm, key, range) ==
    (range # NoRange /\ inColumns(r, cm[key])) =>
        /\ Le(Num(range[1]), Or(get(r, cm[key]), Num(-1)))
        /\ Le(Or(get(r, cm[key]), Num(-1)), Num(range[2]))

passed(r, cm, c) ==
    /\ searchClause(r, cm, c)
    /\ categoricalClause(r, cm, c)
    /\ riskClause(r, cm, c)
    /\ talentClause(r, cm, c)
    /\ rangeClause(r, cm, "age", c.age_range)
    /\ rangeClause(r, cm, "tenure", c.tenure_range)

-----------------------------------------------------------------------------
(* to_number, calc_roi, gen_pkg *)

\* to_number(v) on a cell: float(str(v)...).  "None" does not parse and the
\* except clause returns None; "nan" parses to NaN; the text of a number
\* parses to that number
to_number(v) ==
    CASE v.t = "none" -> None
      [] v.t = "nan"  -> NaN
      [] v.t = "num"  -> Num(v.n)

\* a float product v * num / den; NaN stays NaN.  The modelled amounts are whole
\* multiples of den wherever the quotient is read
scale(v, num, den) == IF IsNum(v) THEN Num((v.n * num) \div den) ELSE v

\* calc_roi with kr = 0.3, kt = 0.2, kp = 0.5; kr + kt + kp is 1.0 in floats
calc_roi(s) ==
    [total    |-> scale(Or(to_number(s), Num(0)), 1, 1),
     recruit  |-> scale(Or(to_number(s), Num(0)), 3, 10),
     training |-> scale(Or(to_number(s), Num(0)), 2, 10),
     lost     |-> scale(Or(to_number(s), Num(0)), 5, 10)]

\* a tier rule with strict comparisons
tier_strict(risk) ==
    IF Ge(Or(risk, Num(0)), Num(71)) THEN "critical"
    ELSE IF Ge(Or(risk, Num(0)), Num(51)) THEN "high"
    ELSE IF Ge(Or(risk, Num(0)), Num(31)) THEN "medium"
    ELSE "low"

\* the tier (line 340): (risk or 0) >= 70, >= 50, >= 30, in that order
tier(risk) ==
    IF Ge(Or(risk, Num(0)), Num(70)) THEN "critical"
    ELSE IF Ge(Or(risk, Num(0)), Num(50)) THEN "high"
    ELSE IF Ge(Or(risk, Num(0)), Num(30)) THEN "medium"
    ELSE "low"

\* budgets[level], in hundredths
budgets(level) ==
    CASE level = "critical" -> 25
      [] level = "high"     -> 15
      [] level = "medium"   -> 8
      [] level = "low"      -> 4

timelines(level) ==
    CASE level = "critical" -> "48h"
      [] level = "high"     -> "1 week"
      [] level = "medium"   -> "2 weeks"
      [] level = "low"      -> "1 month"

\* Python round(x) of the exact quotient num / den, den > 0: to the nearest
\* integer, a tie to the even one
round(num, den) ==
    IF 2 * (num % den) < den THEN num \div den
    ELSE IF 2 * (num % den) > den THEN (num \div den) + 1
    ELSE IF (num \div den) % 2 = 0 THEN num \div den
    ELSE (num \div den) + 1

NotRun == [state |-> "not run"]

\* the package for a tier and an amount (to_number(salary) or 0): round() of a
\* NaN raises ValueError, and gen_pkg ends there with level assigned
package(level, amount) ==
    IF ~IsNum(amount)
    THEN [state |-> "raised", level |-> level]
    ELSE [state |-> "returned", level |-> level,
          budget |-> round(amount.n * budgets(level), 100 * 10000),
          timeline |-> timelines(level),
          immediate |-> IF level \in {"critical", "high"} THEN "escalation" ELSE "standard",
          follow |-> IF level = "critical" THEN "mentoring" ELSE "training"]

gen_pkg(risk, salary) == package(tier(risk), Or(to_number(salary), Num(0)))

-----------------------------------------------------------------------------
(* The risk histogram *)

\* pd.cut(x, [0,30,50,70,100], right=False): the number of the bin
\* [edge, next edge) that holds v, 0 when no bin does
cut(v) ==
    IF ~IsNum(v) THEN 0
    ELSE IF 0 <= v.n /\ v.n < 30 THEN 1
    ELSE IF 30 <= v.n /\ v.n < 50 THEN 2
    ELSE IF 50 <= v.n /\ v.n < 70 THEN 3
    ELSE IF 70 <= v.n /\ v.n < 100 THEN 4
    ELSE 0

\* value_counts().reindex(labels).fillna(0): one count per label, zero included
bucketCounts(risks) ==
    [b \in 1..4 |-> Cardinality({j \in 1..Len(risks) : cut(risks[j]) = b})]

-----------------------------------------------------------------------------
(* Bounds *)

\* longest header list handed to auto_guess_map
MaxCols == 2

\* reruns in a session
MaxRuns == 3

\* how many of the 26 attempts decode the bytes handed to the loader
MaxOk == 2

\* rows of the filtered table the histogram is drawn from
MaxRows == 2

-----------------------------------------------------------------------------
(* auto_guess_map on a header list *)

\* headers the lists are drawn from: exact hits of several priorities, the same
\* name in two spellings, and names that only contain a candidate
HeaderPool ==
    { <<"k.seong","k.myeong">>,                      \* name, first candidate
      <<"k.i","k.reum">>,                            \* name, second candidate
      <<"N","a","m","e">>, <<"n","a","m","e">>,      \* name, third candidate, two spellings
      <<"u","s","e","r","n","a","m","e">>,           \* contains "name"
      <<"k.seong","k.myeong","k.i","k.reum">>,       \* contains the first two name candidates
      <<"k.jik","k.geup">>,                          \* level, third candidate
      <<"k.jik","k.geup","k.re","k.bel">>,           \* level, first candidate
      <<"k.wi","k.heom","k.do">>,                    \* risk, second candidate
      <<"k.toe","k.jik","k.wi","k.heom","k.do">>,    \* risk, first candidate
      <<"R","I","S","K">>,                           \* risk, third candidate
      <<"k.so","k.sok","k.tim">>,                    \* contains the first team candidate
      <<"m","y","t","e","a","m">>,                   \* contains the third team candidate
      <<"t","e","a","m">>,                           \* team, third candidate
      <<"o","r","g">>,                               \* org, third candidate
      <<"k.bi","k.go">> }                            \* matches nothing

HeaderLists == UNION { [1..n -> HeaderPool] : n \in 0..MaxCols }

InitSessionIdle ==
    /\ upl = "none" /\ df_columns = <<>> /\ colmap = NoColmap /\ halted = "no"
    /\ required_missing = <<>> /\ stages = <<>> /\ last_event = "none" /\ runs = 0
    /\ local_file = "missing" /\ coerced = {}

InitLoaderIdle == parses = {} /\ attempted = <<>> /\ last_err = NoErr /\ ret = Running

InitFindIdle == cols = <<>> /\ guess = NoColmap

InitFilterIdle == row = <<>> /\ fcolmap = NoColmap /\ crit = <<>> /\ kept = "todo"

InitPkgIdle ==
    /\ sel_row = <<>> /\ risk_val = None /\ salary_val = None /\ pkg = NotRun /\ roi = NotRun

InitHistIdle == fdf_risk = <<>> /\ bc = <<>>

InitFind ==
    /\ cols \in HeaderLists
    /\ guess = NoColmap
    /\ InitSessionIdle /\ InitLoaderIdle /\ InitFilterIdle /\ InitPkgIdle /\ InitHistIdle

\* st.session_state["colmap"] = auto_guess_map(df.columns)
Guess ==
    /\ guess = NoColmap
    /\ guess' = auto_guess_map(cols)
    /\ UNCHANGED <<cols, sessionVars, loaderVars, filterVars, pkgVars, histVars>>

NextFind == Guess

SpecFind == InitFind /\ [][NextFind]_vars

-----------------------------------------------------------------------------
(* try_read_table_from_bytes, one attempt at a time *)

InitLoad ==
    /\ parses \in {{f[i] : i \in 1..MaxOk} \ {0} : f \in [1..MaxOk -> 0..Len(Attempts)]}
    /\ attempted = <<>> /\ last_err = NoErr /\ ret = Running
    /\ InitSessionIdle /\ InitFindIdle /\ InitFilterIdle /\ InitPkgIdle /\ InitHistIdle

\* the outcome of the next attempt
attemptStep(r) ==
    /\ attempted' = Append(attempted, Attempts[Len(attempted) + 1])
    /\ ret' = r.ret
    /\ last_err' = r.last_err
    /\ UNCHANGED <<parses, sessionVars, findVars, filterVars, pkgVars, histVars>>

\* one iteration of the inner CSV loop
TryCsv ==
    /\ ret.state = "running"
    /\ Len(attempted) < Len(encs) * Len(seps)
    /\ attemptStep(tryAttempt(Len(attempted) + 1, parses, last_err))

\* the Excel block and the final return
TryExcel ==
    /\ ret.state = "running"
    /\ Len(attempted) = Len(encs) * Len(seps)
    /\ attemptStep(tryAttempt(Len(attempted) + 1, parses, last_err))

NextLoad == TryCsv \/ TryExcel

SpecLoad == InitLoad /\ [][NextLoad]_vars

-----------------------------------------------------------------------------
(* The filter on one row of a table, under every setting of the widgets *)

hName   == <<"k.seong","k.myeong">>
hOrg    == <<"k.bon","k.bu">>
hTalent == <<"k.in","k.jae","k.deung","k.geup">>
hRisk   == <<"k.toe","k.jik","k.wi","k.heom","k.do">>
hAge    == <<"k.na","k.i">>
hTenure == <<"k.geun","k.sok","k.yeon","k.su">>

People ==
    { [name |-> <<"K","i","m">>, org |-> <<"H","Q">>, talent |-> <<"C","r","i","t","i","c","a","l">>],
      [name |-> <<"L","e","e">>, org |-> <<"L","a","b">>, talent |-> <<"S","t","a","n","d","a","r","d">>] }

\* cells of the coerced numeric columns; Absent stands for a table without the column
Absent      == None
RiskCells   == {NaN, Num(-5), Num(0), Num(30), Num(80)}
AgeCells    == {NaN, Num(18), Num(45), Num(70), Num(71)}
TenureCells == {NaN, Num(0), Num(20), Num(40), Num(41)}

mkRow(p, hasTalent, risk, age, tenure) ==
    [h \in {hName, hOrg, hRisk} \cup (IF hasTalent THEN {hTalent} ELSE {})
                                \cup (IF age # Absent THEN {hAge} ELSE {})
                                \cup (IF tenure # Absent THEN {hTenure} ELSE {}) |->
        CASE h = hName   -> p.name
          [] h = hOrg    -> p.org
          [] h = hTalent -> p.talent
          [] h = hRisk   -> risk
          [] h = hAge    -> age
          [] h = hTenure -> tenure]

\* df.columns of the table the row belongs to
columnsOf(r) ==
    SelectSeq(<<hName, hOrg, hTalent, hRisk, hAge, hTenure>>, LAMBDA h : h \in DOMAIN r)

mapped(r, cm, key) == cm[key] # Unmapped /\ inColumns(r, cm[key])

\* the widgets as the script first draws them (lines 196-222)
defaultCrit(r, cm) ==
    [search |-> <<>>,
     sel |-> [k \in {"org", "team", "grade", "level", "talent", "riskReason"} |-> {}],
     risk_threshold |-> 30,
     only_key |-> TRUE,
     age_range |-> IF mapped(r, cm, "age") THEN <<18, 70>> ELSE NoRange,
     tenure_range |-> IF mapped(r, cm, "tenure") THEN <<0, 40>> ELSE NoRange]

InitFilter ==
    /\ \E p \in People, hasTalent \in BOOLEAN, risk \in RiskCells,
          age \in AgeCells \cup {Absent}, tenure \in TenureCells \cup {Absent} :
          row = mkRow(p, hasTalent, risk, age, tenure)
    /\ fcolmap = auto_guess_map(columnsOf(row))
    /\ crit = defaultCrit(row, fcolmap)
    /\ kept = "todo"
    /\ InitSessionIdle /\ InitLoaderIdle /\ InitFindIdle /\ InitPkgIdle /\ InitHistIdle

\* df.apply(passed, axis=1) on the row, under the widgets' values c
refilter(c) ==
    /\ crit' = c
    /\ kept' = IF passed(row, fcolmap, c) THEN "in" ELSE "out"
    /\ UNCHANGED <<row, fcolmap, sessionVars, loaderVars, findVars, pkgVars, histVars>>

\* the first run of the script on the table
FirstFilter == kept = "todo" /\ refilter(crit)

SetSearch(v) == kept # "todo" /\ v # crit.search /\ refilter([crit EXCEPT !.search = v])

SetSelection(k, v) ==
    /\ kept # "todo" /\ v # crit.sel[k]
    /\ mapped(row, fcolmap, k)
    /\ v \subseteq {row[fcolmap[k]]}
    /\ refilter([crit EXCEPT !.sel[k] = v])

SetThreshold(v) ==
    kept # "todo" /\ v # crit.risk_threshold /\ refilter([crit EXCEPT !.risk_threshold = v])

ToggleKeyTalent == kept # "todo" /\ refilter([crit EXCEPT !.only_key = ~crit.only_key])

SetAgeRange(v) ==
    /\ kept # "todo" /\ crit.age_range # NoRange /\ v # crit.age_range
    /\ refilter([crit EXCEPT !.age_range = v])

SetTenureRange(v) ==
    /\ kept # "todo" /\ crit.tenure_range # NoRange /\ v # crit.tenure_range
    /\ refilter([crit EXCEPT !.tenure_range = v])

NextFilter ==
    \/ FirstFilter
    \/ \E v \in {<<>>, <<"k","i">>} : SetSearch(v)
    \/ \E k \in {"org", "talent"} : \E v \in SUBSET {get(row, fcolmap[k])} : SetSelection(k, v)
    \/ \E v \in {0, 30} : SetThreshold(v)
    \/ ToggleKeyTalent
    \/ \E v \in {<<18, 70>>, <<18, 45>>, <<45, 70>>} : SetAgeRange(v)
    \/ \E v \in {<<0, 40>>, <<0, 20>>, <<20, 40>>} : SetTenureRange(v)

SpecFilter == InitFilter /\ [][NextFilter]_vars

-----------------------------------------------------------------------------
(* The package of a selected employee *)

\* risk of the selected row; None and NaN are the missing risks gen_pkg allows for
PkgRisks ==
    {None, NaN} \cup {Num(n) : n \in {-10, 0, 29, 30, 49, 50, 69, 70, 80, 100}}

\* salary cell of the selected row, in won
PkgSalaries ==
    {Absent, NaN} \cup {Num(n) : n \in {0, 10000, 1250000, 30000000, 50000000, 80000000}}

InitPkg ==
    /\ sel_row \in [risk : PkgRisks, salary : PkgSalaries]
    /\ risk_val = None /\ salary_val = None /\ pkg = NotRun /\ roi = NotRun
    /\ InitSessionIdle /\ InitLoaderIdle /\ InitFindIdle /\ InitFilterIdle /\ InitHistIdle

\* what lines 364-366 leave behind: calc_roi runs only when gen_pkg returned
packageFor(rv, sv) ==
    /\ risk_val' = rv
    /\ salary_val' = sv
    /\ pkg' = gen_pkg(rv, sv)
    /\ roi' = IF gen_pkg(rv, sv).state = "returned" THEN calc_roi(sv) ELSE NotRun
    /\ UNCHANGED <<sel_row, sessionVars, loaderVars, findVars, filterVars, histVars>>

\* an employee of a table with a salary column is selected
SelectWithSalary ==
    /\ pkg = NotRun /\ sel_row.salary # Absent
    /\ packageFor(sel_row.risk, sel_row.salary)

\* an employee of a table without a mapped salary column is selected
SelectWithoutSalary ==
    /\ pkg = NotRun /\ sel_row.salary = Absent
    /\ packageFor(sel_row.risk, Num(0))

NextPkg == SelectWithSalary \/ SelectWithoutSalary

SpecPkg == InitPkg /\ [][NextPkg]_vars

-----------------------------------------------------------------------------
(* The histogram of a filtered table *)

\* risk values of filtered rows: the filter keeps only present risks >= 0
HistRisks == {Num(n) : n \in {0, 29, 30, 49, 50, 69, 70, 99, 100, 101}}

InitHist ==
    /\ fdf_risk \in UNION { [1..n -> HistRisks] : n \in 0..MaxRows }
    /\ bc = <<>>
    /\ InitSessionIdle /\ InitLoaderIdle /\ InitFindIdle /\ InitFilterIdle /\ InitPkgIdle

\* lines 300-302
DrawHistogram ==
    /\ bc = <<>>
    /\ bc' = bucketCounts(fdf_risk)
    /\ UNCHANGED <<fdf_risk, sessionVars, loaderVars, findVars, filterVars, pkgVars>>

NextHist == DrawHistogram

SpecHist == InitHist /\ [][NextHist]_vars

-----------------------------------------------------------------------------
(* The session *)

InitSession ==
    /\ upl = "none" /\ df_columns = <<>> /\ colmap = NoColmap /\ halted = "no"
    /\ required_missing = <<>> /\ stages = <<>> /\ last_event = "none" /\ runs = 0
    /\ local_file \in {"L", "missing"} /\ coerced = {}
    /\ InitLoaderIdle /\ InitFindIdle /\ InitFilterIdle /\ InitPkgIdle /\ InitHistIdle

\* what a run leaves behind
leave(r, u, event) ==
    /\ upl' = u
    /\ df_columns' = r.columns
    /\ colmap' = r.colmap
    /\ halted' = r.halted
    /\ required_missing' = r.required_missing
    /\ stages' = r.stages
    /\ coerced' = r.coerced
    /\ last_event' = event
    /\ runs' = runs + 1
    /\ UNCHANGED <<local_file, loaderVars, findVars, filterVars, pkgVars, histVars>>

\* one run of the script
Run(u, edit, event) ==
    /\ runs < MaxRuns
    /\ leave(rerun(u, local_file, colmap, edit), u, event)

\* the page is opened: the first run, nothing uploaded
Start == runs = 0 /\ Run("none", NoEdit, "start")

\* the user uploads another file
Upload(f) == runs > 0 /\ f # upl /\ Run(f, NoEdit, "upload")

\* the user removes the uploaded file
RemoveUpload == runs > 0 /\ upl # "none" /\ Run("none", NoEdit, "remove")

\* the user picks another option in a mapping selectbox
EditMapping(k, v) ==
    /\ runs > 0 /\ halted # "load"
    /\ v \in {Unmapped} \cup Range(df_columns)
    /\ v # colmap[k]
    /\ Run(upl, [key |-> k, value |-> v], "edit")

\* the user changes a filter widget, selects an employee or ticks a checklist box
OtherInteraction == runs > 0 /\ halted = "no" /\ Run(upl, NoEdit, "other")

Next ==
    \/ Start
    \/ \E f \in FileNames : Upload(f)
    \/ RemoveUpload
    \/ \E k \in Range(SelectKeys) : \E v \in {Unmapped} \cup Range(df_columns) : EditMapping(k, v)
    \/ OtherInteraction

Spec == InitSession /\ [][Next]_vars

-----------------------------------------------------------------------------
(* Claims about the session *)

\* the required keys that the mapping in force leaves without a real header
missingNow ==
    SelectSeq(<<"name", "org", "risk">>,
              LAMBDA k : colmap[k] = Unmapped \/ colmap[k] \notin Range(df_columns))

\* C1: a run that has a table always reaches the validation of the required
\* keys; when name, org or risk is mapped to the sentinel or to no header of the
\* table, the run halts with the error listing exactly those keys and runs
\* neither apply_numeric nor the filter nor any later stage; when all three are
\* mapped to headers the run goes on through every stage.
C1_RequiredMappingHalts ==
    runs > 0 /\ halted # "load" =>
        /\ SubSeq(stages, 1, 3) = <<"load", "mapping", "validate">>
        /\ IF missingNow # <<>>
           THEN /\ halted = "mapping"
                /\ required_missing = missingNow
                /\ Len(stages) = 3
                /\ coerced = {}
           ELSE /\ halted = "no"
                /\ required_missing = <<>>
                /\ {"numeric", "filter", "package"} \subseteq Range(stages)
                /\ colmap["risk"] \in coerced

\* a run halted by the validation with two of the three keys missing
C1_Witness ==
    /\ halted = "mapping"
    /\ required_missing = <<"org", "risk">>
    /\ colmap["name"] \in Range(df_columns)

\* C2: at the validation, each of the 14 values of the mapping is the sentinel
\* or a header of the table loaded in this run.
C2_MappingValuesAreHeaders ==
    runs > 0 /\ halted # "load" =>
        \A k \in FieldKeys : colmap[k] = Unmapped \/ colmap[k] \in Range(df_columns)

\* C3: a run that loads a new file leaves the mapping that auto_guess_map infers
\* from the new headers, and a run triggered by a filter change or an employee
\* selection leaves the mapping as it was.
C3_RebuiltOnNewFileOnly ==
    [][ /\ (last_event' \in {"start", "upload", "remove"} /\ halted' # "load")
            => colmap' = auto_guess_map(df_columns')
        /\ last_event' = "other" => colmap' = colmap ]_vars

-----------------------------------------------------------------------------
(* Claims about the filter *)

\* the cell of the row in the column a key is mapped to
cell(key) == get(row, fcolmap[key])

\* no search, no selection, threshold 0, toggle off, sliders at their full extent
EmptyCriteria ==
    /\ crit.search = <<>>
    /\ \A k \in DOMAIN crit.sel : crit.sel[k] = {}
    /\ crit.risk_threshold = 0
    /\ ~crit.only_key
    /\ crit.age_range \in {NoRange, <<18, 70>>}
    /\ crit.tenure_range \in {NoRange, <<0, 40>>}

valueOrSentinel(key) == IF IsNum(cell(key)) THEN cell(key).n ELSE -1

inRange(key, range) == range[1] <= valueOrSentinel(key) /\ valueOrSentinel(key) <= range[2]

\* C6: for a mapped age (tenure) column the row passes the range clause exactly
\* when its value, a missing one read as -1, lies in the inclusive range; so a
\* row that passes every other clause is returned exactly when both hold.
C6_RangeClauseInclusive ==
    kept # "todo" =>
        /\ mapped(row, fcolmap, "age") =>
              (rangeClause(row, fcolmap, "age", crit.age_range) <=> inRange("age", crit.age_range))
        /\ mapped(row, fcolmap, "tenure") =>
              (rangeClause(row, fcolmap, "tenure", crit.tenure_range)
                  <=> inRange("tenure", crit.tenure_range))
        /\ (/\ mapped(row, fcolmap, "age") /\ mapped(row, fcolmap, "tenure")
            /\ searchClause(row, fcolmap, crit) /\ categoricalClause(row, fcolmap, crit)
            /\ riskClause(row, fcolmap, crit) /\ talentClause(row, fcolmap, crit))
           => (kept = "in" <=> (inRange("age", crit.age_range)
                                  /\ inRange("tenure", crit.tenure_range)))

-----------------------------------------------------------------------------
(* Claims about gen_pkg and calc_roi *)

\* C7: the tier gen_pkg assigns is critical for a risk >= 70, high for
\* 50 <= risk < 70, medium for 30 <= risk < 50, low for a risk < 30 and low for
\* a missing risk (None or NaN).
C7_TierBoundaries ==
    pkg # NotRun =>
        pkg.level = (IF ~IsNum(risk_val) THEN "low"
                     ELSE IF risk_val.n >= 70 THEN "critical"
                     ELSE IF risk_val.n >= 50 THEN "high"
                     ELSE IF risk_val.n >= 30 THEN "medium"
                     ELSE "low")

\* a package for a risk of exactly 70
C7_Witness == pkg # NotRun /\ risk_val = Num(70) /\ pkg.level = "critical"

\* C8: with the salary missing (no salary column mapped, or a NaN cell left by
\* the numeric coercion) gen_pkg and calc_roi return, the budget is 0 and the ROI total is 0, and the
\* tier follows the risk alone (critical for a risk of 80).
C8_MissingSalaryGivesZero ==
    (pkg # NotRun /\ sel_row.salary \in {Absent, NaN}) =>
        /\ pkg.state = "returned"
        /\ pkg.budget = 0
        /\ roi # NotRun
        /\ roi.total = Num(0)
        /\ pkg.level = tier(risk_val)
        /\ risk_val = Num(80) => pkg.level = "critical"

-----------------------------------------------------------------------------
(* Claims about the risk histogram *)

\* C10: the chart has four counts; a row with a risk in [0,30), [30,50),
\* [50,70) or [70,100], 100 included, is counted in that bucket and in no
\* other, so the counts add up to the number of rows with a risk in 0..100.
C10_HistogramCountsEveryRow ==
    bc # <<>> =>
        /\ DOMAIN bc = 1..4
        /\ bc[1] = Cardinality({j \in 1..Len(fdf_risk) : 0 <= fdf_risk[j].n /\ fdf_risk[j].n < 30})
        /\ bc[2] = Cardinality({j \in 1..Len(fdf_risk) : 30 <= fdf_risk[j].n /\ fdf_risk[j].n < 50})
        /\ bc[3] = Cardinality({j \in 1..Len(fdf_risk) : 50 <= fdf_risk[j].n /\ fdf_risk[j].n < 70})
        /\ bc[4] = Cardinality({j \in 1..Len(fdf_risk) : 70 <= fdf_risk[j].n /\ fdf_risk[j].n <= 100})
        /\ bc[1] + bc[2] + bc[3] + bc[4]
              = Cardinality({j \in 1..Len(fdf_risk) : 0 <= fdf_risk[j].n /\ fdf_risk[j].n <= 100})

-----------------------------------------------------------------------------
(* Claims about auto_guess_map *)

\* the candidates of a key that some header equals, case-insensitively
exactHits(key) ==
    {i \in 1..Len(cands(key)) : \E j \in 1..Len(cols) : lower(cols[j]) = lower(cands(key)[i])}

\* C9: when some header equals a candidate of a key case-insensitively, the key
\* is mapped to a header that equals, case-insensitively, the first such
\* candidate in priority order, whatever the other headers contain; a header
\* equal to the first candidate is the one chosen.
C9_ExactMatchPrecedence ==
    guess # NoColmap =>
        \A key \in FieldKeys :
            /\ exactHits(key) # {} =>
                  /\ guess[key] \in Range(cols)
                  /\ \E i \in exactHits(key) :
                        /\ \A g \in exactHits(key) : i <= g
                        /\ lower(guess[key]) = lower(cands(key)[i])
            /\ cands(key)[1] \in Range(cols) => guess[key] = cands(key)[1]

\* an exact hit of the third name candidate wins over a header, earlier in the
\* list, that contains the first candidate
C9_Witness ==
    /\ guess # NoColmap
    /\ cols = << <<"k.seong","k.myeong","k.i","k.reum">>, <<"N","a","m","e">> >>
    /\ guess["name"] = <<"N","a","m","e">>

\* the positions of the headers that contain some candidate of a key,
\* case-insensitively
substrHits(key) ==
    {j \in 1..Len(cols) :
        \E i \in 1..Len(cands(key)) : contains(lower(cols[j]), lower(cands(key)[i]))}

\* C11: when no header equals a candidate of a key, the key is mapped to the
\* first header, in header order, that contains any candidate of the key as a
\* case-insensitive substring, whichever candidate that is; when no header
\* contains a candidate the key is left unmapped.
C11_SubstringFirstInHeaderOrder ==
    guess # NoColmap =>
        \A key \in FieldKeys :
            exactHits(key) = {} =>
                IF substrHits(key) = {}
                THEN guess[key] = Unmapped
                ELSE \E j \in substrHits(key) :
                        /\ \A g \in substrHits(key) : j <= g
                        /\ guess[key] = cols[j]

-----------------------------------------------------------------------------
(* Claims about try_read_table_from_bytes *)

\* the k-th attempt of the fixed order: encodings outermost, separators
\* innermost, the workbook last
nthAttempt(k) ==
    IF k <= 25
    THEN [kind |-> "csv",
          enc |-> <<"utf-8", "utf-8-sig", "cp949", "euc-kr", "latin1">>[((k - 1) \div 5) + 1],
          sep |-> <<"auto", ",", ";", "\\t", "|">>[((k - 1) % 5) + 1]]
    ELSE [kind |-> "excel", enc |-> "-", sep |-> "-"]

\* C4: the attempts are made in the fixed order and there are never more than
\* 26; the call goes on exactly while every attempt so far has failed; it
\* returns at the first attempt that decodes, with that attempt's table and a
\* message naming its encoding and separator (or the workbook format); when all
\* 26 fail it returns None with the message of the last, the Excel, attempt.
C4_FirstSuccessInOrder ==
    /\ Len(attempted) <= 26
    /\ \A k \in 1..Len(attempted) : attempted[k] = nthAttempt(k)
    /\ \A k \in 1..(Len(attempted) - 1) : k \notin parses
    /\ ret.state = "running" => Len(attempted) < 26 /\ Len(attempted) \notin parses
    /\ (ret.state = "running" /\ Len(attempted) < 25) => ENABLED TryCsv
    /\ (ret.state = "running" /\ Len(attempted) = 25) => ENABLED TryExcel
    /\ (ret.state = "returned" /\ ret.df # 0) =>
          /\ Len(attempted) \in parses
          /\ ret.df = Len(attempted)
          /\ ret.msg.text = (IF Len(attempted) = 26 THEN "Excel loaded (.xlsx/.xls)"
                             ELSE "CSV loaded")
          /\ ret.msg.enc = nthAttempt(Len(attempted)).enc
          /\ ret.msg.sep = nthAttempt(Len(attempted)).sep
    /\ (ret.state = "returned" /\ ret.df = 0) =>
          /\ Len(attempted) = 26
          /\ parses = {}
          /\ ret.msg.text = "[excel] error"

\* a call that returned the table of a later attempt although a second, still
\* later attempt would also have decoded the bytes
C4_Witness ==
    /\ ret.state = "returned"
    /\ ret.df = 13
    /\ parses = {13, 18}
    /\ ret.msg.enc = "cp949" /\ ret.msg.sep = ";"

=============================================================================
